---- MODULE Spec2Model ----
(***************************************************************************)
(* Metadata service: dataset registry, lineage graph with cycle guard,     *)
(* one-hop traversal and ranked search.  The store is the pair of tables   *)
(* (datasets, lineages); every operation of Appmanagement.py, database.py  *)
(* and routes.py is an operator over a store value db, and the actions     *)
(* apply them to the shared store.                                         *)
(*                                                                         *)
(* Strings are sequences of one-character strings, so that str.split,      *)
(* str.lower, str.strip and the substring test are computed, not assumed.  *)
(***************************************************************************)
EXTENDS Integers, Sequences, FiniteSets, TLC

VARIABLES
    datasets,   \* rows of table "datasets", in primary-key order
    lineages,   \* rows of table "lineage", in primary-key order
    last,       \* the last call: operation, arguments, outcome
    isolation,  \* transaction isolation the database runs the sessions under
    pc,         \* per request thread: position inside its handler
    loc         \* per request thread: the handler's local variables

vars == <<datasets, lineages, last, isolation, pc, loc>>

(***************************************************************************)
(* Bounds of the model.                                                    *)
(***************************************************************************)
MaxLineages == 2

(***************************************************************************)
(* Python string primitives.                                               *)
(***************************************************************************)
UpperChars == <<"A","B","C","D","E","F","G","H","I","J","K","L","M",
                "N","O","P","Q","R","S","T","U","V","W","X","Y","Z">>
LowerChars == <<"a","b","c","d","e","f","g","h","i","j","k","l","m",
                "n","o","p","q","r","s","t","u","v","w","x","y","z">>
Whitespace == {" ", "\t", "\n", "\r"}

LowerChar(c) ==
    IF \E i \in 1..Len(UpperChars) : UpperChars[i] = c
    THEN LowerChars[CHOOSE i \in 1..Len(UpperChars) : UpperChars[i] = c]
    ELSE c

\* str.lower()
Lower(s) == [i \in 1..Len(s) |-> LowerChar(s[i])]

\* str.split(sep): always at least one part, empty parts kept
RECURSIVE Split(_, _)
Split(s, sep) ==
    IF \A i \in 1..Len(s) : s[i] # sep
    THEN <<s>>
    ELSE LET i == CHOOSE k \in 1..Len(s) :
                     s[k] = sep /\ \A j \in 1..(k-1) : s[j] # sep
         IN  <<SubSeq(s, 1, i-1)>> \o Split(SubSeq(s, i+1, Len(s)), sep)

\* needle in hay (substring containment; the empty string is in every string)
Contains(needle, hay) ==
    \E i \in 0..(Len(hay) - Len(needle)) :
        SubSeq(hay, i+1, i+Len(needle)) = needle

\* str.strip(): leading and trailing whitespace removed
RECURSIVE Strip(_)
Strip(s) ==
    IF s = <<>> THEN s
    ELSE IF s[1] \in Whitespace THEN Strip(Tail(s))
    ELSE IF s[Len(s)] \in Whitespace THEN Strip(SubSeq(s, 1, Len(s)-1))
    ELSE s

(***************************************************************************)
(* Outcomes of a call: the exception raised ("None" when it returns), its  *)
(* message, the store afterwards and the value returned.                   *)
(***************************************************************************)
Ok(db, out) == [exc |-> "None", msg |-> "", db |-> db, out |-> out]
Raise(exc, msg, db) == [exc |-> exc, msg |-> msg, db |-> db, out |-> <<>>]

(***************************************************************************)
(* database.py: queries.  An Optional[...] is a sequence of length <= 1.   *)
(***************************************************************************)
First(rows) == IF rows = <<>> THEN <<>> ELSE <<rows[1]>>

get_dataset_by_fqn(db, fqn) ==
    First(SelectSeq(db.datasets, LAMBDA d : d.fqn = fqn))

get_dataset_by_id(db, dataset_id) ==
    First(SelectSeq(db.datasets, LAMBDA d : d.id = dataset_id))

\* the relationship attributes Lineage.upstream / Lineage.downstream
RelatedDataset(db, dataset_id) ==
    db.datasets[CHOOSE i \in 1..Len(db.datasets) : db.datasets[i].id = dataset_id]

\* variant: the filter is on the wrong end of the edge
get_upstream_datasets_wrong_end(db, dataset_id) ==
    LET rows == SelectSeq(db.lineages, LAMBDA l : l.upstream_id = dataset_id)
    IN  [i \in 1..Len(rows) |-> RelatedDataset(db, rows[i].upstream_id)]

get_upstream_datasets(db, dataset_id) ==
    LET rows == SelectSeq(db.lineages, LAMBDA l : l.downstream_id = dataset_id)
    IN  [i \in 1..Len(rows) |-> RelatedDataset(db, rows[i].upstream_id)]

get_downstream_datasets(db, dataset_id) ==
    LET rows == SelectSeq(db.lineages, LAMBDA l : l.upstream_id = dataset_id)
    IN  [i \in 1..Len(rows) |-> RelatedDataset(db, rows[i].downstream_id)]

(***************************************************************************)
(* database.py: inserts.  Primary keys are assigned in insertion order.    *)
(* The operators of database.py carry the names Appmanagement.py imports   *)
(* them under (db_create_dataset, ...), the handlers of routes.py keep     *)
(* theirs (create_dataset, ...).                                           *)
(***************************************************************************)
NextId(rows) == IF rows = <<>> THEN 1 ELSE rows[Len(rows)].id + 1

\* variant: the column rows are inserted last first
db_create_dataset_reversed_columns(db, fqn, source_type, columns) ==
    LET parts == Split(fqn, ".") IN
    IF Len(parts) < 4
    THEN Raise("ValueError", "not enough values to unpack", db)
    ELSE IF Len(parts) > 4
    THEN Raise("ValueError", "too many values to unpack", db)
    ELSE IF \E i \in 1..Len(db.datasets) : db.datasets[i].fqn = fqn
    THEN Raise("IntegrityError", "Duplicate entry for key fqn", db)
    ELSE LET dataset == [id              |-> NextId(db.datasets),
                         fqn             |-> fqn,
                         connection_name |-> parts[1],
                         database_name   |-> parts[2],
                         schema_name     |-> parts[3],
                         table_name      |-> parts[4],
                         source_type     |-> source_type,
                         columns         |->
                             [i \in 1..Len(columns) |-> columns[Len(columns) + 1 - i]]]
         IN  Ok([db EXCEPT !.datasets = Append(@, dataset)], <<dataset>>)

\* column fqn is declared unique: the insert of a second row with the same
\* fqn is refused by the database
db_create_dataset(db, fqn, source_type, columns) ==
    LET parts == Split(fqn, ".") IN
    IF Len(parts) < 4
    THEN Raise("ValueError", "not enough values to unpack", db)
    ELSE IF Len(parts) > 4
    THEN Raise("ValueError", "too many values to unpack", db)
    ELSE IF \E i \in 1..Len(db.datasets) : db.datasets[i].fqn = fqn
    THEN Raise("IntegrityError", "Duplicate entry for key fqn", db)
    ELSE LET dataset == [id              |-> NextId(db.datasets),
                         fqn             |-> fqn,
                         connection_name |-> parts[1],
                         database_name   |-> parts[2],
                         schema_name     |-> parts[3],
                         table_name      |-> parts[4],
                         source_type     |-> source_type,
                         columns         |-> columns]
         IN  Ok([db EXCEPT !.datasets = Append(@, dataset)], <<dataset>>)

\* variant: a pair that has a row already gets no second row
db_create_lineage_dedup(db, upstream_id, downstream_id) ==
    LET rows == SelectSeq(db.lineages,
                          LAMBDA l : l.upstream_id = upstream_id
                                     /\ l.downstream_id = downstream_id)
        lineage == [id            |-> NextId(db.lineages),
                    upstream_id   |-> upstream_id,
                    downstream_id |-> downstream_id]
    IN  IF rows # <<>> THEN Ok(db, <<rows[1]>>)
        ELSE Ok([db EXCEPT !.lineages = Append(@, lineage)], <<lineage>>)

db_create_lineage(db, upstream_id, downstream_id) ==
    LET lineage == [id            |-> NextId(db.lineages),
                    upstream_id   |-> upstream_id,
                    downstream_id |-> downstream_id]
    IN  Ok([db EXCEPT !.lineages = Append(@, lineage)], <<lineage>>)

(***************************************************************************)
(* database.py: search_datasets.  One pass over all datasets in table      *)
(* order, first matching category wins, then list.sort on the priority     *)
(* (a stable sort).                                                        *)
(***************************************************************************)
AnyColumnMatches(query_lower, columns) ==
    \E i \in 1..Len(columns) : Contains(query_lower, Lower(columns[i].name))

\* variant: the column names are tried before the table name
MatchDataset_columns_first(query_lower, dataset) ==
    IF AnyColumnMatches(query_lower, dataset.columns)
    THEN <<[dataset |-> dataset, match_type |-> "column_name", priority |-> 2]>>
    ELSE IF Contains(query_lower, Lower(dataset.table_name))
    THEN <<[dataset |-> dataset, match_type |-> "table_name", priority |-> 1]>>
    ELSE IF Contains(query_lower, Lower(dataset.schema_name))
    THEN <<[dataset |-> dataset, match_type |-> "schema_name", priority |-> 3]>>
    ELSE IF Contains(query_lower, Lower(dataset.database_name))
    THEN <<[dataset |-> dataset, match_type |-> "database_name", priority |-> 4]>>
    ELSE <<>>

\* variant: the connection component of the FQN is a fifth category
MatchDataset_connection_too(query_lower, dataset) ==
    IF Contains(query_lower, Lower(dataset.table_name))
    THEN <<[dataset |-> dataset, match_type |-> "table_name", priority |-> 1]>>
    ELSE IF AnyColumnMatches(query_lower, dataset.columns)
    THEN <<[dataset |-> dataset, match_type |-> "column_name", priority |-> 2]>>
    ELSE IF Contains(query_lower, Lower(dataset.schema_name))
    THEN <<[dataset |-> dataset, match_type |-> "schema_name", priority |-> 3]>>
    ELSE IF Contains(query_lower, Lower(dataset.database_name))
    THEN <<[dataset |-> dataset, match_type |-> "database_name", priority |-> 4]>>
    ELSE IF Contains(query_lower, Lower(dataset.connection_name))
    THEN <<[dataset |-> dataset, match_type |-> "database_name", priority |-> 4]>>
    ELSE <<>>

\* the body of the for loop: the tuples one dataset contributes (none or one)
MatchDataset(query_lower, dataset) ==
    IF Contains(query_lower, Lower(dataset.table_name))
    THEN <<[dataset |-> dataset, match_type |-> "table_name", priority |-> 1]>>
    ELSE IF AnyColumnMatches(query_lower, dataset.columns)
    THEN <<[dataset |-> dataset, match_type |-> "column_name", priority |-> 2]>>
    ELSE IF Contains(query_lower, Lower(dataset.schema_name))
    THEN <<[dataset |-> dataset, match_type |-> "schema_name", priority |-> 3]>>
    ELSE IF Contains(query_lower, Lower(dataset.database_name))
    THEN <<[dataset |-> dataset, match_type |-> "database_name", priority |-> 4]>>
    ELSE <<>>

RECURSIVE ScanDatasets(_, _)
ScanDatasets(query_lower, rows) ==
    IF rows = <<>> THEN <<>>
    ELSE MatchDataset(query_lower, Head(rows)) \o ScanDatasets(query_lower, Tail(rows))

\* variant: x goes in front of the elements of equal key (not stable)
RECURSIVE InsertByPriority_unstable(_, _)
InsertByPriority_unstable(sorted, x) ==
    IF sorted = <<>> THEN <<x>>
    ELSE IF Head(sorted).priority < x.priority
    THEN <<Head(sorted)>> \o InsertByPriority_unstable(Tail(sorted), x)
    ELSE <<x>> \o sorted

\* insertion of x behind every element whose key is not greater (stable)
RECURSIVE InsertByPriority(_, _)
InsertByPriority(sorted, x) ==
    IF sorted = <<>> THEN <<x>>
    ELSE IF Head(sorted).priority <= x.priority
    THEN <<Head(sorted)>> \o InsertByPriority(Tail(sorted), x)
    ELSE <<x>> \o sorted

\* results.sort(key=lambda x: x[2])
RECURSIVE SortByPriority(_)
SortByPriority(results) ==
    IF results = <<>> THEN <<>>
    ELSE InsertByPriority(SortByPriority(SubSeq(results, 1, Len(results)-1)),
                          results[Len(results)])

db_search_datasets(db, query) ==
    SortByPriority(ScanDatasets(Lower(query), db.datasets))

(***************************************************************************)
(* Appmanagement.py.                                                       *)
(***************************************************************************)
\* variant: no existence lookup, the insert is left to the unique index
add_dataset_no_lookup(db, fqn, source_type, columns) ==
    db_create_dataset(db, fqn, source_type, columns)

\* variant: a registered FQN has its source type and columns replaced
add_dataset_replace(db, fqn, source_type, columns) ==
    IF get_dataset_by_fqn(db, fqn) # <<>>
    THEN Ok([db EXCEPT !.datasets =
                 [i \in 1..Len(db.datasets) |->
                     IF db.datasets[i].fqn = fqn
                     THEN [db.datasets[i] EXCEPT !.source_type = source_type,
                                                 !.columns = columns]
                     ELSE db.datasets[i]]],
            get_dataset_by_fqn(db, fqn))
    ELSE db_create_dataset(db, fqn, source_type, columns)

add_dataset(db, fqn, source_type, columns) ==
    IF get_dataset_by_fqn(db, fqn) # <<>>
    THEN Raise("DatasetAlreadyExistsError", "already exists", db)
    ELSE db_create_dataset(db, fqn, source_type, columns)

\* dfs(current_id) with the visited set threaded through the recursion;
\* reads lists the ids whose downstream rows were fetched, in order.
\* variant: the loop over the downstream rows does not descend
dfs_loop_no_descent(db, start_id, downstream, i, st) ==
    [st EXCEPT !.found = \E k \in 1..Len(downstream) : downstream[k].id = start_id]

RECURSIVE dfs(_, _, _, _)
RECURSIVE dfs_loop(_, _, _, _, _)

\* variant: the visited set of one branch is not kept for the next branch
RECURSIVE dfs_loop_path_visited(_, _, _, _, _)
dfs_loop_path_visited(db, start_id, downstream, i, st) ==
    IF i > Len(downstream)
    THEN [st EXCEPT !.found = FALSE]
    ELSE LET r == dfs(db, start_id, downstream[i].id, st)
         IN  IF r.found THEN r
             ELSE dfs_loop_path_visited(db, start_id, downstream, i+1,
                                        [r EXCEPT !.visited = st.visited])

\* variant: only the newest downstream row is followed
dfs_loop_last_only(db, start_id, downstream, i, st) ==
    IF downstream = <<>>
    THEN [st EXCEPT !.found = FALSE]
    ELSE dfs(db, start_id, downstream[Len(downstream)].id, st)

dfs(db, start_id, current_id, st) ==
    IF current_id = start_id
    THEN [st EXCEPT !.found = TRUE]
    ELSE IF current_id \in st.visited
    THEN [st EXCEPT !.found = FALSE]
    ELSE dfs_loop(db, start_id, get_downstream_datasets(db, current_id), 1,
                  [found   |-> FALSE,
                   visited |-> st.visited \cup {current_id},
                   reads   |-> Append(st.reads, current_id)])

dfs_loop(db, start_id, downstream, i, st) ==
    IF i > Len(downstream)
    THEN [st EXCEPT !.found = FALSE]
    ELSE LET r == dfs(db, start_id, downstream[i].id, st)
         IN  IF r.found THEN r
             ELSE dfs_loop(db, start_id, downstream, i+1, r)

dfs_run(db, start_id, target_id) ==
    dfs(db, start_id, target_id, [found |-> FALSE, visited |-> {}, reads |-> <<>>])

\* variant: the search runs from the upstream end towards the downstream end
detect_cycle_dfs_reversed(db, start_id, target_id) ==
    dfs_run(db, target_id, start_id).found

detect_cycle_dfs(db, start_id, target_id) ==
    dfs_run(db, start_id, target_id).found

\* variant: no self-reference test, the cycle search answers instead
add_lineage_no_self_test(db, upstream_fqn, downstream_fqn) ==
    LET upstream_dataset == get_dataset_by_fqn(db, upstream_fqn)
        downstream_dataset == get_dataset_by_fqn(db, downstream_fqn)
    IN  IF upstream_dataset = <<>>
        THEN Raise("DatasetNotFoundError", "Upstream dataset not found", db)
        ELSE IF downstream_dataset = <<>>
        THEN Raise("DatasetNotFoundError", "Downstream dataset not found", db)
        ELSE IF detect_cycle_dfs(db, upstream_dataset[1].id, downstream_dataset[1].id)
        THEN Raise("CycleDetectionError", "would create a cycle", db)
        ELSE db_create_lineage(db, upstream_dataset[1].id, downstream_dataset[1].id)

\* variant: the downstream FQN is resolved before the upstream FQN
add_lineage_downstream_first(db, upstream_fqn, downstream_fqn) ==
    LET upstream_dataset == get_dataset_by_fqn(db, upstream_fqn)
        downstream_dataset == get_dataset_by_fqn(db, downstream_fqn)
    IN  IF downstream_dataset = <<>>
        THEN Raise("DatasetNotFoundError", "Downstream dataset not found", db)
        ELSE IF upstream_dataset = <<>>
        THEN Raise("DatasetNotFoundError", "Upstream dataset not found", db)
        ELSE IF upstream_dataset[1].id = downstream_dataset[1].id
        THEN Raise("CycleDetectionError", "Cannot create lineage to self", db)
        ELSE IF detect_cycle_dfs(db, upstream_dataset[1].id, downstream_dataset[1].id)
        THEN Raise("CycleDetectionError", "would create a cycle", db)
        ELSE db_create_lineage(db, upstream_dataset[1].id, downstream_dataset[1].id)

\* variant: the row is inserted before the cycle search, the error is raised
\* afterwards
add_lineage_persist_first(db, upstream_fqn, downstream_fqn) ==
    LET upstream_dataset == get_dataset_by_fqn(db, upstream_fqn)
        downstream_dataset == get_dataset_by_fqn(db, downstream_fqn)
    IN  IF upstream_dataset = <<>>
        THEN Raise("DatasetNotFoundError", "Upstream dataset not found", db)
        ELSE IF downstream_dataset = <<>>
        THEN Raise("DatasetNotFoundError", "Downstream dataset not found", db)
        ELSE IF upstream_dataset[1].id = downstream_dataset[1].id
        THEN Raise("CycleDetectionError", "Cannot create lineage to self", db)
        ELSE LET o == db_create_lineage(db, upstream_dataset[1].id,
                                        downstream_dataset[1].id)
             IN  IF detect_cycle_dfs(db, upstream_dataset[1].id,
                                     downstream_dataset[1].id)
                 THEN Raise("CycleDetectionError", "would create a cycle", o.db)
                 ELSE o

\* variant: the row is written with the two ids in each other's place
add_lineage_swapped_ids(db, upstream_fqn, downstream_fqn) ==
    LET upstream_dataset == get_dataset_by_fqn(db, upstream_fqn)
        downstream_dataset == get_dataset_by_fqn(db, downstream_fqn)
    IN  IF upstream_dataset = <<>>
        THEN Raise("DatasetNotFoundError", "Upstream dataset not found", db)
        ELSE IF downstream_dataset = <<>>
        THEN Raise("DatasetNotFoundError", "Downstream dataset not found", db)
        ELSE IF upstream_dataset[1].id = downstream_dataset[1].id
        THEN Raise("CycleDetectionError", "Cannot create lineage to self", db)
        ELSE IF detect_cycle_dfs(db, upstream_dataset[1].id, downstream_dataset[1].id)
        THEN Raise("CycleDetectionError", "would create a cycle", db)
        ELSE db_create_lineage(db, downstream_dataset[1].id, upstream_dataset[1].id)

add_lineage(db, upstream_fqn, downstream_fqn) ==
    LET upstream_dataset == get_dataset_by_fqn(db, upstream_fqn)
        downstream_dataset == get_dataset_by_fqn(db, downstream_fqn)
    IN  IF upstream_dataset = <<>>
        THEN Raise("DatasetNotFoundError", "Upstream dataset not found", db)
        ELSE IF downstream_dataset = <<>>
        THEN Raise("DatasetNotFoundError", "Downstream dataset not found", db)
        ELSE IF upstream_dataset[1].id = downstream_dataset[1].id
        THEN Raise("CycleDetectionError", "Cannot create lineage to self", db)
        ELSE IF detect_cycle_dfs(db, upstream_dataset[1].id, downstream_dataset[1].id)
        THEN Raise("CycleDetectionError", "would create a cycle", db)
        ELSE db_create_lineage(db, upstream_dataset[1].id, downstream_dataset[1].id)

Fqns(rows) == [i \in 1..Len(rows) |-> rows[i].fqn]

\* variant: the two lists are attached under each other's key
SearchResult_swapped(db, r) ==
    [dataset             |-> r.dataset,
     match_type          |-> r.match_type,
     priority            |-> r.priority,
     upstream_datasets   |-> Fqns(get_downstream_datasets(db, r.dataset.id)),
     downstream_datasets |-> Fqns(get_upstream_datasets(db, r.dataset.id))]

SearchResult(db, r) ==
    [dataset             |-> r.dataset,
     match_type          |-> r.match_type,
     priority            |-> r.priority,
     upstream_datasets   |-> Fqns(get_upstream_datasets(db, r.dataset.id)),
     downstream_datasets |-> Fqns(get_downstream_datasets(db, r.dataset.id))]

search_datasets_with_lineage(db, query) ==
    LET results == db_search_datasets(db, query)
    IN  Ok(db, [i \in 1..Len(results) |-> SearchResult(db, results[i])])

\* variant: an FQN that is not registered is registered on the way
get_dataset_lineage_get_or_create(db, fqn) ==
    LET dataset == get_dataset_by_fqn(db, fqn)
    IN  IF dataset = <<>>
        THEN Raise("DatasetNotFoundError", "Dataset not found",
                   db_create_dataset(db, fqn, "MySQL", <<>>).db)
        ELSE Ok(db, <<[dataset    |-> dataset[1],
                       upstream   |-> Fqns(get_upstream_datasets(db, dataset[1].id)),
                       downstream |-> Fqns(get_downstream_datasets(db, dataset[1].id))]>>)

get_dataset_lineage(db, fqn) ==
    LET dataset == get_dataset_by_fqn(db, fqn)
    IN  IF dataset = <<>>
        THEN Raise("DatasetNotFoundError", "Dataset not found", db)
        ELSE Ok(db, <<[dataset    |-> dataset[1],
                       upstream   |-> Fqns(get_upstream_datasets(db, dataset[1].id)),
                       downstream |-> Fqns(get_downstream_datasets(db, dataset[1].id))]>>)

ColumnNames(columns) == {columns[i].name : i \in 1..Len(columns)}

\* the message of the ValueError raised, "" when the data is valid
validate_dataset_data(fqn, source_type, columns) ==
    IF Len(Split(fqn, ".")) # 4
    THEN "FQN must have exactly 4 parts"
    ELSE IF columns = <<>>
    THEN "Dataset must have at least one column"
    ELSE IF Len(columns) # Cardinality(ColumnNames(columns))
    THEN "Duplicate column names are not allowed"
    ELSE ""

(***************************************************************************)
(* utils.py and Dbconfig.py: the request models' validators.               *)
(***************************************************************************)
SOURCE_SYSTEMS == {"MySQL", "MSSQL", "PostgreSQL"}

validate_source_type(v) == v \in SOURCE_SYSTEMS

validate_fqn(v) == Len(Split(v, ".")) = 4

(***************************************************************************)
(* routes.py: the handlers.  A response is an outcome with the HTTP status *)
(* the handler (or the framework, for a request model that does not        *)
(* validate: 422) answers with.                                            *)
(***************************************************************************)
Http(status, o) ==
    [exc |-> o.exc, msg |-> o.msg, db |-> o.db, out |-> o.out, status |-> status]

create_dataset(db, fqn, source_type, columns) ==
    IF ~validate_fqn(fqn) \/ ~validate_source_type(source_type)
    THEN Http(422, Raise("RequestValidationError", "DatasetCreate", db))
    ELSE IF validate_dataset_data(fqn, source_type, columns) # ""
    THEN Http(400, Raise("ValueError",
                         validate_dataset_data(fqn, source_type, columns), db))
    ELSE LET o == add_dataset(db, fqn, source_type, columns)
         IN  IF o.exc = "None" THEN Http(200, o)
             ELSE IF o.exc = "DatasetAlreadyExistsError" THEN Http(409, o)
             ELSE IF o.exc = "ValueError" THEN Http(400, o)
             ELSE Http(500, o)

create_lineage(db, upstream_fqn, downstream_fqn) ==
    IF ~validate_fqn(upstream_fqn) \/ ~validate_fqn(downstream_fqn)
    THEN Http(422, Raise("RequestValidationError", "LineageCreate", db))
    ELSE LET o == add_lineage(db, upstream_fqn, downstream_fqn)
         IN  IF o.exc = "None" THEN Http(200, o)
             ELSE IF o.exc = "CycleDetectionError" THEN Http(400, o)
             ELSE IF o.exc = "DatasetNotFoundError" THEN Http(404, o)
             ELSE Http(500, o)

search_datasets(db, query) ==
    IF query = <<>> \/ Len(Strip(query)) = 0
    THEN Http(400, Raise("ValueError", "Query parameter cannot be empty", db))
    ELSE Http(200, search_datasets_with_lineage(db, query))

get_lineage(db, fqn) ==
    LET o == get_dataset_lineage(db, fqn)
    IN  IF o.exc = "None" THEN Http(200, o)
        ELSE IF o.exc = "DatasetNotFoundError" THEN Http(404, o)
        ELSE Http(500, o)

(***************************************************************************)
(* Inputs.  FQNs, column names and queries are character sequences.        *)
(***************************************************************************)
orders_raw    == <<"k", ".", "d", ".", "s", ".", "o", "r">>
orders_clean  == <<"k", ".", "d", ".", "o", ".", "c", "s">>
orders_report == <<"k", ".", "o", ".", "s", ".", "p">>
empty_part    == <<"k", ".", "o", ".", ".", "t">>
three_parts   == <<"k", ".", "d", ".", "t">>
five_parts    == <<"k", ".", "d", ".", "s", ".", "t", ".", "u">>

Col(name, type) == [name |-> name, type |-> type]

DatasetInputs ==
    { [fqn |-> orders_raw, source_type |-> "MySQL",
       columns |-> <<Col(<<"o", "i">>, "int"), Col(<<"n">>, "varchar")>>],
      [fqn |-> orders_raw, source_type |-> "MSSQL", columns |-> <<>>],
      [fqn |-> orders_raw, source_type |-> "PostgreSQL",
       columns |-> <<Col(<<"n">>, "int"), Col(<<"n">>, "varchar")>>],
      [fqn |-> orders_clean, source_type |-> "PostgreSQL",
       columns |-> <<Col(<<"i">>, "int"), Col(<<"I">>, "varchar")>>],
      [fqn |-> orders_report, source_type |-> "MSSQL",
       columns |-> <<Col(<<"O">>, "int")>>],
      [fqn |-> three_parts, source_type |-> "MySQL",
       columns |-> <<Col(<<"n">>, "int")>>],
      [fqn |-> five_parts, source_type |-> "MySQL",
       columns |-> <<Col(<<"n">>, "int")>>] }

LineageFqns == {orders_raw, orders_clean, orders_report, three_parts}

Queries == { <<>>, <<" ">>, <<"O">>, <<"s">>, <<"d">>, <<"k">> }

ApiDatasetInputs ==
    { [fqn |-> orders_raw, source_type |-> "MySQL",
       columns |-> <<Col(<<"o", "i">>, "int"), Col(<<"n">>, "varchar")>>],
      [fqn |-> orders_raw, source_type |-> "MSSQL", columns |-> <<>>],
      [fqn |-> orders_raw, source_type |-> "Oracle",
       columns |-> <<Col(<<"n">>, "int")>>],
      [fqn |-> empty_part, source_type |-> "PostgreSQL",
       columns |-> <<Col(<<"n">>, "int"), Col(<<"n">>, "varchar")>>],
      [fqn |-> empty_part, source_type |-> "PostgreSQL",
       columns |-> <<Col(<<"i">>, "int"), Col(<<"I">>, "varchar")>>],
      [fqn |-> three_parts, source_type |-> "MySQL",
       columns |-> <<Col(<<"n">>, "int")>>],
      [fqn |-> five_parts, source_type |-> "MySQL",
       columns |-> <<Col(<<"n">>, "int")>>] }

ApiLineageFqns == {orders_raw, empty_part, three_parts, five_parts}

Threads == {1, 2}

IsolationLevels == {"REPEATABLE READ", "READ COMMITTED"}

(***************************************************************************)
(* State.                                                                  *)
(***************************************************************************)
Store == [datasets |-> datasets, lineages |-> lineages]

NoCall ==
    [op |-> "none", args |-> <<>>, exc |-> "None", msg |-> "", status |-> 0,
     out |-> <<>>]

Init ==
    /\ datasets = <<>>
    /\ lineages = <<>>
    /\ last = NoCall
    /\ isolation = "REPEATABLE READ"
    /\ pc = [t \in Threads |-> "idle"]
    /\ loc = [t \in Threads |-> <<>>]

\* one call run to completion against the store: the store afterwards is
\* the outcome's, and last records the call
Call(op, args, o, status) ==
    /\ Len(o.db.lineages) <= MaxLineages
    /\ datasets' = o.db.datasets
    /\ lineages' = o.db.lineages
    /\ last' = [op |-> op, args |-> args, exc |-> o.exc, msg |-> o.msg,
                status |-> status, out |-> o.out]
    /\ UNCHANGED <<isolation, pc, loc>>

(***************************************************************************)
(* The core call surface, one call at a time.                              *)
(***************************************************************************)
AddDataset ==
    \E p \in DatasetInputs :
        Call("AddDataset", <<p.fqn, p.source_type, p.columns>>,
             add_dataset(Store, p.fqn, p.source_type, p.columns), 0)

AddLineage ==
    \E u \in LineageFqns, d \in LineageFqns :
        Call("AddLineage", <<u, d>>, add_lineage(Store, u, d), 0)

Search ==
    \E q \in Queries :
        Call("Search", <<q>>, search_datasets_with_lineage(Store, q), 0)

GetLineage ==
    \E f \in LineageFqns :
        Call("GetLineage", <<f>>, get_dataset_lineage(Store, f), 0)

Next == AddDataset \/ AddLineage \/ Search \/ GetLineage

Spec == Init /\ [][Next]_vars

(***************************************************************************)
(* The HTTP handlers, one request at a time.                               *)
(***************************************************************************)
PostDatasets ==
    \E p \in ApiDatasetInputs :
        LET r == create_dataset(Store, p.fqn, p.source_type, p.columns)
        IN  Call("POST /datasets", <<p.fqn, p.source_type, p.columns>>, r, r.status)

PostLineage ==
    \E u \in ApiLineageFqns, d \in ApiLineageFqns :
        LET r == create_lineage(Store, u, d)
        IN  Call("POST /lineage", <<u, d>>, r, r.status)

GetSearch ==
    \E q \in Queries :
        LET r == search_datasets(Store, q)
        IN  Call("GET /search", <<q>>, r, r.status)

GetDatasetLineage ==
    \E f \in ApiLineageFqns :
        LET r == get_lineage(Store, f)
        IN  Call("GET /datasets/{fqn}/lineage", <<f>>, r, r.status)

NextApi == PostDatasets \/ PostLineage \/ GetSearch \/ GetDatasetLineage

SpecApi == Init /\ [][NextApi]_vars

(***************************************************************************)
(* Request threads.  The handlers are plain def functions, which the       *)
(* framework runs on a thread pool, each with a session of its own; the    *)
(* code takes no lock, so the store reads and the commit of one call       *)
(* interleave with those of another.  Under REPEATABLE READ a session      *)
(* reads the snapshot its first read established; under READ COMMITTED     *)
(* every read sees the store as it is.  Inserts always act on the store.   *)
(***************************************************************************)
ConcDatasetInputs ==
    { [fqn |-> orders_raw, source_type |-> "MySQL",
       columns |-> <<Col(<<"o", "i">>, "int"), Col(<<"n">>, "varchar")>>],
      [fqn |-> orders_clean, source_type |-> "PostgreSQL",
       columns |-> <<Col(<<"i">>, "int"), Col(<<"I">>, "varchar")>>] }

ConcLineageFqns == {orders_raw, orders_clean}

InitConc ==
    /\ datasets = <<>>
    /\ lineages = <<>>
    /\ last = NoCall
    /\ isolation \in IsolationLevels
    /\ pc = [t \in Threads |-> "idle"]
    /\ loc = [t \in Threads |-> <<>>]

Snapshot == IF isolation = "REPEATABLE READ" THEN <<Store>> ELSE <<>>

\* what a read of thread t sees
View(t) == IF loc[t].snap = <<>> THEN Store ELSE loc[t].snap[1]

Locals(op, args, snap) ==
    [op |-> op, args |-> args, snap |-> snap, up |-> <<>>, down |-> <<>>,
     stack |-> <<>>, visited |-> {}]

\* the call of thread t ends with outcome o
Finish(t, o) ==
    /\ last' = [op |-> loc[t].op, args |-> loc[t].args, exc |-> o.exc,
                msg |-> o.msg, status |-> 0, out |-> o.out]
    /\ pc' = [pc EXCEPT ![t] = "idle"]
    /\ loc' = [loc EXCEPT ![t] = <<>>]

\* add_dataset, line 40: the existence lookup
T_AddDatasetLookup(t) ==
    /\ pc[t] = "idle"
    /\ \E p \in ConcDatasetInputs :
        LET l == Locals("AddDataset", <<p.fqn, p.source_type, p.columns>>, Snapshot)
        IN  IF get_dataset_by_fqn(Store, p.fqn) # <<>>
            THEN /\ last' = [op |-> l.op, args |-> l.args,
                             exc |-> "DatasetAlreadyExistsError",
                             msg |-> "already exists", status |-> 0, out |-> <<>>]
                 /\ UNCHANGED <<pc, loc>>
            ELSE /\ pc' = [pc EXCEPT ![t] = "insert"]
                 /\ loc' = [loc EXCEPT ![t] = l]
                 /\ UNCHANGED last
    /\ UNCHANGED <<datasets, lineages, isolation>>

\* add_dataset, line 46: db_create_dataset, insert and commit
T_AddDatasetInsert(t) ==
    /\ pc[t] = "insert"
    /\ LET o == db_create_dataset(Store, loc[t].args[1], loc[t].args[2], loc[t].args[3])
       IN  /\ datasets' = o.db.datasets
           /\ Finish(t, o)
    /\ UNCHANGED <<lineages, isolation>>

\* add_lineage, lines 90-93: the upstream FQN is resolved
T_ResolveUpstream(t) ==
    /\ pc[t] = "idle"
    /\ \E u \in ConcLineageFqns, d \in ConcLineageFqns :
        LET l == Locals("AddLineage", <<u, d>>, Snapshot)
            up == get_dataset_by_fqn(Store, u)
        IN  IF up = <<>>
            THEN /\ last' = [op |-> l.op, args |-> l.args,
                             exc |-> "DatasetNotFoundError",
                             msg |-> "Upstream dataset not found",
                             status |-> 0, out |-> <<>>]
                 /\ UNCHANGED <<pc, loc>>
            ELSE /\ pc' = [pc EXCEPT ![t] = "resolve_downstream"]
                 /\ loc' = [loc EXCEPT ![t] = [l EXCEPT !.up = up]]
                 /\ UNCHANGED last
    /\ UNCHANGED <<datasets, lineages, isolation>>

\* variant: no self-reference test between the lookup and the cycle search
T_ResolveDownstream_no_self_test(t) ==
    /\ pc[t] = "resolve_downstream"
    /\ LET down == get_dataset_by_fqn(View(t), loc[t].args[2])
       IN  IF down = <<>>
           THEN Finish(t, Raise("DatasetNotFoundError",
                                "Downstream dataset not found", Store))
           ELSE /\ pc' = [pc EXCEPT ![t] = "dfs"]
                /\ loc' = [loc EXCEPT ![t].down = down,
                                      ![t].stack = <<down[1].id>>]
                /\ UNCHANGED last
    /\ UNCHANGED <<datasets, lineages, isolation>>

\* add_lineage, lines 95-103: the downstream FQN is resolved, self-reference
T_ResolveDownstream(t) ==
    /\ pc[t] = "resolve_downstream"
    /\ LET down == get_dataset_by_fqn(View(t), loc[t].args[2])
       IN  IF down = <<>>
           THEN Finish(t, Raise("DatasetNotFoundError",
                                "Downstream dataset not found", Store))
           ELSE IF loc[t].up[1].id = down[1].id
           THEN Finish(t, Raise("CycleDetectionError",
                                "Cannot create lineage to self", Store))
           ELSE /\ pc' = [pc EXCEPT ![t] = "dfs"]
                /\ loc' = [loc EXCEPT ![t].down = down,
                                      ![t].stack = <<down[1].id>>]
                /\ UNCHANGED last
    /\ UNCHANGED <<datasets, lineages, isolation>>

\* detect_cycle_dfs, lines 60-75: one call of dfs(current_id), the pending
\* calls kept on a stack; it reads the downstream rows of one dataset
T_DfsStep(t) ==
    /\ pc[t] = "dfs"
    /\ LET current_id == Head(loc[t].stack)
           rest == Tail(loc[t].stack)
           start_id == loc[t].up[1].id
           downstream == get_downstream_datasets(View(t), current_id)
           pushed == [i \in 1..Len(downstream) |-> downstream[i].id] \o rest
       IN  IF current_id = start_id
           THEN Finish(t, Raise("CycleDetectionError", "would create a cycle", Store))
           ELSE /\ loc' = IF current_id \in loc[t].visited
                          THEN [loc EXCEPT ![t].stack = rest]
                          ELSE [loc EXCEPT ![t].stack = pushed,
                                           ![t].visited = @ \cup {current_id}]
                /\ pc' = [pc EXCEPT ![t] =
                            IF (current_id \in loc[t].visited /\ rest = <<>>)
                               \/ (current_id \notin loc[t].visited /\ pushed = <<>>)
                            THEN "persist" ELSE "dfs"]
                /\ UNCHANGED last
    /\ UNCHANGED <<datasets, lineages, isolation>>

\* add_lineage, line 113: db_create_lineage, insert and commit
T_Persist(t) ==
    /\ pc[t] = "persist"
    /\ Len(lineages) < MaxLineages
    /\ LET o == db_create_lineage(Store, loc[t].up[1].id, loc[t].down[1].id)
       IN  /\ lineages' = o.db.lineages
           /\ Finish(t, o)
    /\ UNCHANGED <<datasets, isolation>>

NextConc ==
    \E t \in Threads :
        \/ T_AddDatasetLookup(t)
        \/ T_AddDatasetInsert(t)
        \/ T_ResolveUpstream(t)
        \/ T_ResolveDownstream(t)
        \/ T_DfsStep(t)
        \/ T_Persist(t)

SpecConc == InitConc /\ [][NextConc]_vars

(***************************************************************************)
(* A reading request beside a writing one.  Thread 1 runs                  *)
(* search_datasets_with_lineage or get_dataset_lineage query by query,     *)
(* thread 2 runs add_dataset and add_lineage as above.  began is the store *)
(* at the first query of the call.                                         *)
(***************************************************************************)
Readers == {1}

Writers == {2}

ReadQueries == { <<"d">> }

ReadLocals(op, args) ==
    [op |-> op, args |-> args, snap |-> Snapshot, began |-> Store,
     results |-> <<>>, i |-> 1, upstream |-> <<>>, out |-> <<>>]

\* search_datasets_with_lineage, line 124: db_search_datasets
R_SearchScan(t) ==
    /\ pc[t] = "idle"
    /\ \E q \in ReadQueries :
        LET results == db_search_datasets(Store, q)
        IN  IF results = <<>>
            THEN /\ last' = [op |-> "Search", args |-> <<q>>, exc |-> "None",
                             msg |-> "", status |-> 0, out |-> <<>>]
                 /\ UNCHANGED <<pc, loc>>
            ELSE /\ pc' = [pc EXCEPT ![t] = "attach_upstream"]
                 /\ loc' = [loc EXCEPT ![t] =
                              [ReadLocals("Search", <<q>>) EXCEPT !.results = results]]
                 /\ UNCHANGED last
    /\ UNCHANGED <<datasets, lineages, isolation>>

\* search_datasets_with_lineage, lines 129-130: the upstream rows of the
\* i-th matched dataset
R_AttachUpstream(t) ==
    /\ pc[t] = "attach_upstream"
    /\ LET r == loc[t].results[loc[t].i]
       IN  loc' = [loc EXCEPT ![t].upstream =
                       Fqns(get_upstream_datasets(View(t), r.dataset.id))]
    /\ pc' = [pc EXCEPT ![t] = "attach_downstream"]
    /\ UNCHANGED <<datasets, lineages, last, isolation>>

\* search_datasets_with_lineage, lines 133-147: the downstream rows of the
\* i-th matched dataset, its result appended; the list is returned after
\* the last one
R_AttachDownstream(t) ==
    /\ pc[t] = "attach_downstream"
    /\ LET r == loc[t].results[loc[t].i]
           result == [dataset             |-> r.dataset,
                      match_type          |-> r.match_type,
                      priority            |-> r.priority,
                      upstream_datasets   |-> loc[t].upstream,
                      downstream_datasets |->
                          Fqns(get_downstream_datasets(View(t), r.dataset.id))]
           search_results == Append(loc[t].out, result)
       IN  IF loc[t].i = Len(loc[t].results)
           THEN Finish(t, Ok(Store, search_results))
           ELSE /\ loc' = [loc EXCEPT ![t].out = search_results,
                                      ![t].i = @ + 1,
                                      ![t].upstream = <<>>]
                /\ pc' = [pc EXCEPT ![t] = "attach_upstream"]
                /\ UNCHANGED last
    /\ UNCHANGED <<datasets, lineages, isolation>>

\* get_dataset_lineage, lines 155-157: the FQN is resolved
R_LineageLookup(t) ==
    /\ pc[t] = "idle"
    /\ \E f \in ConcLineageFqns :
        LET dataset == get_dataset_by_fqn(Store, f)
        IN  IF dataset = <<>>
            THEN /\ last' = [op |-> "GetLineage", args |-> <<f>>,
                             exc |-> "DatasetNotFoundError",
                             msg |-> "Dataset not found", status |-> 0, out |-> <<>>]
                 /\ UNCHANGED <<pc, loc>>
            ELSE /\ pc' = [pc EXCEPT ![t] = "lineage_upstream"]
                 /\ loc' = [loc EXCEPT ![t] =
                              [ReadLocals("GetLineage", <<f>>) EXCEPT !.results = dataset]]
                 /\ UNCHANGED last
    /\ UNCHANGED <<datasets, lineages, isolation>>

\* get_dataset_lineage, line 159: get_upstream_datasets
R_LineageUpstream(t) ==
    /\ pc[t] = "lineage_upstream"
    /\ loc' = [loc EXCEPT ![t].upstream =
                   Fqns(get_upstream_datasets(View(t), loc[t].results[1].id))]
    /\ pc' = [pc EXCEPT ![t] = "lineage_downstream"]
    /\ UNCHANGED <<datasets, lineages, last, isolation>>

\* get_dataset_lineage, lines 160-166: get_downstream_datasets, the dict
R_LineageDownstream(t) ==
    /\ pc[t] = "lineage_downstream"
    /\ Finish(t, Ok(Store,
                    <<[dataset    |-> loc[t].results[1],
                       upstream   |-> loc[t].upstream,
                       downstream |->
                           Fqns(get_downstream_datasets(View(t),
                                                        loc[t].results[1].id))]>>))
    /\ UNCHANGED <<datasets, lineages, isolation>>

NextRead ==
    \/ \E t \in Readers :
        \/ R_SearchScan(t)
        \/ R_AttachUpstream(t)
        \/ R_AttachDownstream(t)
        \/ R_LineageLookup(t)
        \/ R_LineageUpstream(t)
        \/ R_LineageDownstream(t)
    \/ \E t \in Writers :
        \/ T_AddDatasetLookup(t)
        \/ T_AddDatasetInsert(t)
        \/ T_ResolveUpstream(t)
        \/ T_ResolveDownstream(t)
        \/ T_DfsStep(t)
        \/ T_Persist(t)

SpecRead == InitConc /\ [][NextRead]_vars

(***************************************************************************)
(* The lineage graph, defined from the rows and not from the code's        *)
(* queries.                                                                *)
(***************************************************************************)
Edges(rows) == {<<rows[i].upstream_id, rows[i].downstream_id>> : i \in 1..Len(rows)}

RECURSIVE Closure(_, _)
Closure(E, S) ==
    LET N == S \cup {e[2] : e \in {x \in E : x[1] \in S}}
    IN  IF N = S THEN S ELSE Closure(E, N)

\* the ids reachable from a through one or more edges
ReachableFrom(E, a) == Closure(E, {e[2] : e \in {x \in E : x[1] = a}})

Acyclic(rows) == \A e \in Edges(rows) : e[1] \notin ReachableFrom(Edges(rows), e[1])

Registered(fqn) == \E i \in 1..Len(datasets) : datasets[i].fqn = fqn

IdOf(fqn) == datasets[CHOOSE i \in 1..Len(datasets) : datasets[i].fqn = fqn].id

Ids(rows) == {rows[i].id : i \in 1..Len(rows)}

\* an FQN of exactly four non-empty dot-separated parts
WellFormedFqn(fqn) ==
    /\ Len(SelectSeq(fqn, LAMBDA c : c = ".")) = 3
    /\ fqn # <<>>
    /\ fqn[1] # "." /\ fqn[Len(fqn)] # "."
    /\ \A i \in 1..(Len(fqn)-1) : ~(fqn[i] = "." /\ fqn[i+1] = ".")

\* case-insensitive substring containment, character by character
ContainsIgnoringCase(q, s) ==
    \E i \in 0..(Len(s) - Len(q)) :
        \A j \in 1..Len(q) : LowerChar(s[i+j]) = LowerChar(q[j])

\* the first category of the fixed order a dataset satisfies, "" for none
FirstCategory(q, d) ==
    IF ContainsIgnoringCase(q, d.table_name) THEN "table_name"
    ELSE IF \E i \in 1..Len(d.columns) : ContainsIgnoringCase(q, d.columns[i].name)
    THEN "column_name"
    ELSE IF ContainsIgnoringCase(q, d.schema_name) THEN "schema_name"
    ELSE IF ContainsIgnoringCase(q, d.database_name) THEN "database_name"
    ELSE ""

Position(d) == CHOOSE i \in 1..Len(datasets) : datasets[i] = d

(***************************************************************************)
(* The cycle search on its own.  Interleaved AddLineage calls can commit   *)
(* any set of edges between distinct datasets (each call's search runs     *)
(* before the others' commits), and repeated calls commit an edge more     *)
(* than once; so the search is applied to every lineage table of up to     *)
(* MaxDfsEdges rows over four registered datasets, cycles, shared          *)
(* descendants and duplicate rows included.  Tables that differ in the     *)
(* order of their rows only are drawn once.                                *)
(***************************************************************************)
MaxDfsEdges == 4

orders_archive == <<"k", ".", "d", ".", "s", ".", "a">>

DfsDatasetInputs ==
    << [fqn |-> orders_raw, source_type |-> "MySQL",
        columns |-> <<Col(<<"n">>, "int")>>],
       [fqn |-> orders_clean, source_type |-> "MySQL",
        columns |-> <<Col(<<"n">>, "int")>>],
       [fqn |-> orders_report, source_type |-> "MySQL",
        columns |-> <<Col(<<"n">>, "int")>>],
       [fqn |-> orders_archive, source_type |-> "MySQL",
        columns |-> <<Col(<<"n">>, "int")>>] >>

\* the store after add_dataset for each payload in turn
RECURSIVE RegisterAll(_, _)
RegisterAll(db, payloads) ==
    IF payloads = <<>> THEN db
    ELSE RegisterAll(add_dataset(db, payloads[1].fqn, payloads[1].source_type,
                                 payloads[1].columns).db,
                     Tail(payloads))

\* the store after db_create_lineage for each pair in turn
RECURSIVE InsertAll(_, _)
InsertAll(db, pairs) ==
    IF pairs = <<>> THEN db
    ELSE InsertAll(db_create_lineage(db, pairs[1][1], pairs[1][2]).db, Tail(pairs))

DfsStore == RegisterAll([datasets |-> <<>>, lineages |-> <<>>], DfsDatasetInputs)

DfsPairs == {e \in Ids(DfsStore.datasets) \X Ids(DfsStore.datasets) : e[1] # e[2]}

PairKey(e) == e[1] * (Len(DfsStore.datasets) + 1) + e[2]

DfsEdgeLists ==
    { s \in UNION { [1..n -> DfsPairs] : n \in 0..MaxDfsEdges } :
        \A i \in 1..(Len(s) - 1) : PairKey(s[i]) <= PairKey(s[i+1]) }

InitDfs ==
    /\ datasets = DfsStore.datasets
    /\ lineages \in { InsertAll(DfsStore, s).lineages : s \in DfsEdgeLists }
    /\ last = NoCall
    /\ isolation = "REPEATABLE READ"
    /\ pc = [t \in Threads |-> "idle"]
    /\ loc = [t \in Threads |-> <<>>]

\* detect_cycle_dfs(db, start_id, target_id); the outcome carries, beside
\* the answer, the ids whose downstream rows were read
DetectCycle ==
    /\ \E start_id \in Ids(datasets), target_id \in Ids(datasets) :
        last' = [op |-> "detect_cycle_dfs", args |-> <<start_id, target_id>>,
                 exc |-> "None", msg |-> "", status |-> 0,
                 out |-> <<dfs_run(Store, start_id, target_id)>>]
    /\ UNCHANGED <<datasets, lineages, isolation, pc, loc>>

NextDfs == DetectCycle

SpecDfs == InitDfs /\ [][NextDfs]_vars

(***************************************************************************)
(* C1.  After any sequence of AddDataset and AddLineage calls run one at a *)
(* time, the graph of the persisted lineage rows has no directed cycle: no *)
(* dataset is reachable from itself through one or more edges.             *)
(***************************************************************************)
C1_Acyclic == Acyclic(lineages)

\* a cycle-closing call has been refused on a graph of two edges
C1_Witness ==
    /\ last.op = "AddLineage"
    /\ last.exc = "CycleDetectionError"
    /\ last.msg = "would create a cycle"
    /\ Cardinality(Edges(lineages)) = 2

(***************************************************************************)
(* C2.  When AddLineage calls run concurrently, no other writer's edge is  *)
(* persisted between a call's cycle check and its own persist, so that no  *)
(* interleaving leaves a directed cycle in the edge set.                   *)
(***************************************************************************)
C2_NoCycleUnderInterleaving ==
    \A id \in Ids(datasets) : id \notin ReachableFrom(Edges(lineages), id)

(***************************************************************************)
(* C3.  For registered, distinct datasets U and D, AddLineage(U, D) fails  *)
(* with the cycle error exactly when U is reachable from D along existing  *)
(* edges; otherwise the edge (U, D) is persisted.                          *)
(***************************************************************************)
C3_CycleDetectedIffReachable ==
    \A u \in LineageFqns, d \in LineageFqns :
        (Registered(u) /\ Registered(d) /\ u # d) =>
            LET o == add_lineage(Store, u, d)
            IN  IF IdOf(u) \in ReachableFrom(Edges(lineages), IdOf(d))
                THEN /\ o.exc = "CycleDetectionError"
                     /\ o.msg = "would create a cycle"
                     /\ o.db = Store
                ELSE /\ o.exc = "None"
                     /\ o.db.datasets = datasets
                     /\ Len(o.db.lineages) = Len(lineages) + 1
                     /\ SubSeq(o.db.lineages, 1, Len(lineages)) = lineages
                     /\ o.db.lineages[Len(lineages) + 1].upstream_id = IdOf(u)
                     /\ o.db.lineages[Len(lineages) + 1].downstream_id = IdOf(d)

\* orders_raw -> orders_clean -> orders_report, and
\* AddLineage(orders_report, orders_raw) has failed with the cycle error
C3_Witness ==
    /\ last.op = "AddLineage"
    /\ last.args = <<orders_report, orders_raw>>
    /\ last.exc = "CycleDetectionError"
    /\ last.msg = "would create a cycle"
    /\ Registered(orders_raw) /\ Registered(orders_clean) /\ Registered(orders_report)
    /\ Edges(lineages) = { <<IdOf(orders_raw), IdOf(orders_clean)>>,
                           <<IdOf(orders_clean), IdOf(orders_report)>> }

C5_DuplicateFqnRefused ==
    \A p \in DatasetInputs :
        Registered(p.fqn) =>
            LET o == add_dataset(Store, p.fqn, p.source_type, p.columns)
            IN  /\ o.exc = "DatasetAlreadyExistsError"
                /\ o.db = Store

\* a second call for a registered FQN, with another source type and other
\* columns than the stored ones, has been refused, beside an edge
C5_Witness ==
    /\ last.op = "AddDataset"
    /\ last.exc = "DatasetAlreadyExistsError"
    /\ \E i \in 1..Len(datasets) :
        /\ datasets[i].fqn = last.args[1]
        /\ datasets[i].source_type # last.args[2]
        /\ datasets[i].columns # last.args[3]
    /\ lineages # <<>>

(***************************************************************************)
(* C6.  An FQN that does not split on "." into exactly 4 non-empty parts   *)
(* is rejected by the dataset-add path and by the lineage-add path, and no *)
(* dataset whose FQN has an empty component is ever registered.            *)
(***************************************************************************)
C6_MalformedFqnRejected ==
    /\ \A i \in 1..Len(datasets) : WellFormedFqn(datasets[i].fqn)
    /\ (last.op = "POST /datasets" /\ ~WellFormedFqn(last.args[1]))
            => last.status # 200
    /\ (last.op = "POST /lineage"
            /\ (~WellFormedFqn(last.args[1]) \/ ~WellFormedFqn(last.args[2])))
            => last.status # 200

(***************************************************************************)
(* C7.  upstreamOf(D) is exactly the set of datasets with a direct edge    *)
(* into D and downstreamOf(D) the set with a direct edge out of D, one hop *)
(* only; a successful AddLineage(A, B) adds B to downstreamOf(A) and A to  *)
(* upstreamOf(B) and changes the result of no other dataset.               *)
(***************************************************************************)
UpstreamOf(db, id) == Ids(get_upstream_datasets(db, id))

DownstreamOf(db, id) == Ids(get_downstream_datasets(db, id))

C7_DirectHop ==
    /\ \A id \in Ids(datasets) :
        /\ UpstreamOf(Store, id) = {e[1] : e \in {x \in Edges(lineages) : x[2] = id}}
        /\ DownstreamOf(Store, id) = {e[2] : e \in {x \in Edges(lineages) : x[1] = id}}
    /\ \A a \in LineageFqns, b \in LineageFqns :
        LET o == add_lineage(Store, a, b)
        IN  o.exc = "None" =>
                \A id \in Ids(datasets) :
                    /\ DownstreamOf(o.db, id) =
                         DownstreamOf(Store, id) \cup (IF id = IdOf(a) THEN {IdOf(b)} ELSE {})
                    /\ UpstreamOf(o.db, id) =
                         UpstreamOf(Store, id) \cup (IF id = IdOf(b) THEN {IdOf(a)} ELSE {})

\* A -> B -> C after a successful AddLineage, and upstreamOf(C) excludes A
C7_Witness ==
    /\ last.op = "AddLineage"
    /\ last.exc = "None"
    /\ \E a \in Ids(datasets), b \in Ids(datasets), c \in Ids(datasets) :
        /\ a # c
        /\ <<a, b>> \in Edges(lineages)
        /\ <<b, c>> \in Edges(lineages)
        /\ UpstreamOf(Store, c) = {b}
        /\ DownstreamOf(Store, a) = {b}

(***************************************************************************)
(* C8.  Search tags each matched dataset with the first category it        *)
(* satisfies in the order table_name (1), column_name (2), schema_name     *)
(* (3), database_name (4), by case-insensitive substring containment; the  *)
(* priority is the fixed number of the tagged category.                    *)
(***************************************************************************)
SearchPriority(match_type) ==
    CASE match_type = "table_name"    -> 1
      [] match_type = "column_name"   -> 2
      [] match_type = "schema_name"   -> 3
      [] match_type = "database_name" -> 4
      [] OTHER -> 0

C8_FirstCategoryWins ==
    \A q \in Queries :
        LET res == search_datasets_with_lineage(Store, q).out
        IN  \A i \in 1..Len(res) :
                /\ res[i].match_type = FirstCategory(q, res[i].dataset)
                /\ res[i].priority = SearchPriority(res[i].match_type)

\* a search has returned, tagged table_name, a dataset whose table name and
\* a column name both contain the query, beside results of every other tag
C8_Witness ==
    /\ last.op = "Search"
    /\ \E i \in 1..Len(last.out) :
        /\ last.out[i].match_type = "table_name"
        /\ last.out[i].priority = 1
        /\ ContainsIgnoringCase(last.args[1], last.out[i].dataset.table_name)
        /\ \E k \in 1..Len(last.out[i].dataset.columns) :
            ContainsIgnoringCase(last.args[1], last.out[i].dataset.columns[k].name)
        /\ last.args[1] # <<>>
    /\ {last.out[i].match_type : i \in 1..Len(last.out)}
            = {"table_name", "column_name", "schema_name"}

(***************************************************************************)
(* C9.  The sequence Search returns is in ascending priority order, and    *)
(* results of equal priority keep the order in which the registry          *)
(* enumerates their datasets.                                              *)
(***************************************************************************)
C9_SortedStable ==
    \A q \in Queries :
        LET res == search_datasets_with_lineage(Store, q).out
        IN  \A i \in 1..Len(res), j \in 1..Len(res) :
                i < j =>
                    /\ res[i].priority <= res[j].priority
                    /\ res[i].priority = res[j].priority =>
                           Position(res[i].dataset) < Position(res[j].dataset)

\* a search has returned three results, two of equal priority, in an order
\* that is not the registry's
C9_Witness ==
    /\ last.op = "Search"
    /\ Len(last.out) = 3
    /\ \E i \in 1..3, j \in 1..3 :
        i < j /\ last.out[i].priority = last.out[j].priority
    /\ \E i \in 1..3, j \in 1..3 :
        i < j /\ Position(last.out[i].dataset) > Position(last.out[j].dataset)

(***************************************************************************)
(* C10.  Search with an empty query or a query of whitespace only fails    *)
(* with the invalid-input error and returns no results, in the core search *)
(* operation itself.                                                       *)
(***************************************************************************)
C10_BlankQueryRefused ==
    (last.op = "Search" /\ Strip(last.args[1]) = <<>>) =>
        (last.exc = "ValueError" /\ last.out = <<>>)

(***************************************************************************)
(* C11.  AddLineage(U, D) fails with the not-found error when either FQN   *)
(* is not registered, naming the upstream side when U is absent (also when *)
(* both are absent) and the downstream side when U is registered and D is  *)
(* not; no edge is persisted in either case.                               *)
(***************************************************************************)
C11_NotFoundNamesSide ==
    \A u \in LineageFqns, d \in LineageFqns :
        LET o == add_lineage(Store, u, d)
        IN  /\ ~Registered(u) =>
                /\ o.exc = "DatasetNotFoundError"
                /\ o.msg = "Upstream dataset not found"
                /\ o.db = Store
            /\ (Registered(u) /\ ~Registered(d)) =>
                /\ o.exc = "DatasetNotFoundError"
                /\ o.msg = "Downstream dataset not found"
                /\ o.db = Store
            /\ (Registered(u) /\ Registered(d)) => o.exc # "DatasetNotFoundError"

\* a call with both FQNs absent has been refused naming the upstream side,
\* in a store that holds other datasets and an edge
C11_Witness ==
    /\ last.op = "AddLineage"
    /\ last.exc = "DatasetNotFoundError"
    /\ last.msg = "Upstream dataset not found"
    /\ ~Registered(last.args[1]) /\ ~Registered(last.args[2])
    /\ last.args[1] # last.args[2]
    /\ lineages # <<>>

(***************************************************************************)
(* C12.  Every error of AddDataset and AddLineage is detected before any   *)
(* mutation: a call that fails leaves the dataset rows, their columns and  *)
(* the lineage rows exactly as they were.                                  *)
(***************************************************************************)
C12_ErrorsBeforeMutation ==
    /\ \A p \in DatasetInputs :
        LET o == add_dataset(Store, p.fqn, p.source_type, p.columns)
        IN  o.exc # "None" => (o.db.datasets = datasets /\ o.db.lineages = lineages)
    /\ \A u \in LineageFqns, d \in LineageFqns :
        LET o == add_lineage(Store, u, d)
        IN  o.exc # "None" => (o.db.datasets = datasets /\ o.db.lineages = lineages)

\* every kind of failure is possible in the present store: an AddDataset
\* for a registered FQN and one for a malformed FQN, an AddLineage with an
\* absent side, a self-reference and a cycle; the last call was one of them
C12_Witness ==
    /\ last.op \in {"AddDataset", "AddLineage"}
    /\ last.exc # "None"
    /\ \E p \in DatasetInputs :
        add_dataset(Store, p.fqn, p.source_type, p.columns).exc
            = "DatasetAlreadyExistsError"
    /\ \E p \in DatasetInputs :
        add_dataset(Store, p.fqn, p.source_type, p.columns).exc = "ValueError"
    /\ \E u \in LineageFqns, d \in LineageFqns :
        add_lineage(Store, u, d).exc = "DatasetNotFoundError"
    /\ \E u \in LineageFqns :
        add_lineage(Store, u, u).msg = "Cannot create lineage to self"
    /\ \E u \in LineageFqns, d \in LineageFqns :
        add_lineage(Store, u, d).msg = "would create a cycle"

(***************************************************************************)
(* C13.  No two registered datasets share an FQN, also when AddDataset     *)
(* calls for the same FQN run interleaved, and the call that does not      *)
(* register the dataset fails with the already-exists error.               *)
(***************************************************************************)
UniqueFqns ==
    \A i \in 1..Len(datasets), j \in 1..Len(datasets) :
        datasets[i].fqn = datasets[j].fqn => i = j

C13_UniqueFqnAlreadyExists ==
    /\ UniqueFqns
    /\ (last.op = "AddDataset" /\ last.exc # "None" /\ Registered(last.args[1]))
            => last.exc = "DatasetAlreadyExistsError"

(***************************************************************************)
(* C14.  The core add operation itself fails with the invalid-input error  *)
(* when the column list is empty or two columns have the same name (exact  *)
(* match), so that every registered dataset has at least one column and    *)
(* pairwise distinct column names.                                         *)
(***************************************************************************)
DistinctColumnNames(columns) ==
    \A i \in 1..Len(columns), j \in 1..Len(columns) :
        columns[i].name = columns[j].name => i = j

C14_ColumnsValidatedByCore ==
    /\ \A i \in 1..Len(datasets) :
        /\ datasets[i].columns # <<>>
        /\ DistinctColumnNames(datasets[i].columns)
    /\ (last.op = "AddDataset"
            /\ (last.args[3] = <<>> \/ ~DistinctColumnNames(last.args[3])))
            => last.exc = "ValueError"

(***************************************************************************)
(* C15.  For a non-empty query, the Search result holds exactly the        *)
(* registered datasets that match at least one of the four categories      *)
(* (table name, a column name, schema name, database name), each at most   *)
(* once; a dataset matching none of them, also one whose only match is in  *)
(* the connection component of its FQN, is absent.                         *)
(***************************************************************************)
C15_ExactlyTheMatching ==
    \A q \in Queries :
        q # <<>> =>
            LET res == search_datasets_with_lineage(Store, q).out
            IN  /\ {res[i].dataset : i \in 1..Len(res)}
                     = {d \in {datasets[k] : k \in 1..Len(datasets)} :
                            FirstCategory(q, d) # ""}
                /\ \A i \in 1..Len(res), j \in 1..Len(res) :
                        res[i].dataset.id = res[j].dataset.id => i = j

\* a search among three registered datasets has left out one whose FQN
\* contains the query in its connection component only
C15_Witness ==
    /\ last.op = "Search"
    /\ last.args[1] # <<>>
    /\ Len(datasets) = 3
    /\ \E k \in 1..Len(datasets) :
        /\ ContainsIgnoringCase(last.args[1], datasets[k].connection_name)
        /\ FirstCategory(last.args[1], datasets[k]) = ""
        /\ \A i \in 1..Len(last.out) : last.out[i].dataset # datasets[k]

(***************************************************************************)
(* C16.  For every dataset in a Search result, the attached upstream and   *)
(* downstream FQN lists are the FQNs of its direct (one-hop) neighbours in *)
(* the current graph, and equal what GetLineage returns for that dataset's *)
(* FQN in the same state.                                                  *)
(***************************************************************************)
FqnsOfIds(ids) == {datasets[k].fqn : k \in {n \in 1..Len(datasets) : datasets[n].id \in ids}}

Elements(seq) == {seq[i] : i \in 1..Len(seq)}

C16_SearchLineageIsGetLineage ==
    \A q \in Queries :
        LET res == search_datasets_with_lineage(Store, q).out
        IN  \A i \in 1..Len(res) :
                LET g == get_dataset_lineage(Store, res[i].dataset.fqn)
                    id == res[i].dataset.id
                IN  /\ g.exc = "None"
                    /\ res[i].upstream_datasets = g.out[1].upstream
                    /\ res[i].downstream_datasets = g.out[1].downstream
                    /\ Elements(res[i].upstream_datasets)
                         = FqnsOfIds({e[1] : e \in {x \in Edges(lineages) : x[2] = id}})
                    /\ Elements(res[i].downstream_datasets)
                         = FqnsOfIds({e[2] : e \in {x \in Edges(lineages) : x[1] = id}})

\* a search has returned the three datasets of a chain A -> B -> C: the
\* entry of C lists B alone as upstream, the entry of A lists B alone as
\* downstream
C16_Witness ==
    /\ last.op = "Search"
    /\ Len(last.out) = 3
    /\ \E a \in 1..3, b \in 1..3, c \in 1..3 :
        /\ a # c
        /\ last.out[a].downstream_datasets = <<last.out[b].dataset.fqn>>
        /\ last.out[a].upstream_datasets = <<>>
        /\ last.out[b].upstream_datasets = <<last.out[a].dataset.fqn>>
        /\ last.out[b].downstream_datasets = <<last.out[c].dataset.fqn>>
        /\ last.out[c].upstream_datasets = <<last.out[b].dataset.fqn>>
        /\ last.out[c].downstream_datasets = <<>>

(***************************************************************************)
(* C17.  The read operations leave the dataset rows, their columns and the *)
(* lineage rows unchanged, whether they return or fail, and what they      *)
(* return or raise is determined by the store at the time of the call and  *)
(* the argument alone.                                                     *)
(***************************************************************************)
ReadOutcome(op, args, db) ==
    IF op = "Search"
    THEN search_datasets_with_lineage(db, args[1])
    ELSE get_dataset_lineage(db, args[1])

C17_ReadsChangeNothing ==
    [][ last'.op \in {"Search", "GetLineage"} =>
            /\ datasets' = datasets
            /\ lineages' = lineages
            /\ last'.out = ReadOutcome(last'.op, last'.args, Store).out
            /\ last'.exc = ReadOutcome(last'.op, last'.args, Store).exc ]_vars

\* a GetLineage for an FQN that is not registered has failed, in a store
\* that holds datasets and an edge
C17_Witness ==
    /\ last.op = "GetLineage"
    /\ last.exc = "DatasetNotFoundError"
    /\ ~Registered(last.args[1])
    /\ WellFormedFqn(last.args[1])
    /\ datasets # <<>>
    /\ lineages # <<>>

(***************************************************************************)
(* C18.  A Search or GetLineage call that runs beside AddDataset and       *)
(* AddLineage returns a result consistent with one store that existed      *)
(* during the call: it never combines reads from before and after a        *)
(* concurrent insertion.  Rows are only ever appended, so the stores that  *)
(* can have existed between the first query of the call and its return are *)
(* prefixes of the store at the return that extend the store at the first  *)
(* query.                                                                  *)
(***************************************************************************)
StoresBetween(began, end) ==
    { db \in { [datasets |-> SubSeq(end.datasets, 1, a),
                lineages |-> SubSeq(end.lineages, 1, b)] :
                   a \in Len(began.datasets)..Len(end.datasets),
                   b \in Len(began.lineages)..Len(end.lineages) } :
        \A i \in 1..Len(db.lineages) :
            /\ db.lineages[i].upstream_id \in Ids(db.datasets)
            /\ db.lineages[i].downstream_id \in Ids(db.datasets) }

C19_EachNodeExpandedOnce ==
    \A start_id \in Ids(datasets), target_id \in Ids(datasets) :
        LET r == dfs_run(Store, start_id, target_id)
        IN  /\ r.found \in BOOLEAN
            /\ \A i \in 1..Len(r.reads), j \in 1..Len(r.reads) :
                    r.reads[i] = r.reads[j] => i = j
            /\ Elements(r.reads)
                 \subseteq ({target_id} \cup ReachableFrom(Edges(lineages), target_id))
            /\ start_id \notin Elements(r.reads)
            /\ Len(r.reads) <= Len(datasets)

\* a search that found no path has read three datasets once each, in a
\* graph that holds a cycle and a dataset with two distinct direct
\* upstream datasets, both of them read
C19_Witness ==
    /\ last.op = "detect_cycle_dfs"
    /\ ~last.out[1].found
    /\ Len(last.out[1].reads) = 3
    /\ ~Acyclic(lineages)
    /\ \E a \in Elements(last.out[1].reads), b \in Elements(last.out[1].reads),
          c \in Elements(last.out[1].reads) :
        /\ a # b
        /\ <<a, c>> \in Edges(lineages)
        /\ <<b, c>> \in Edges(lineages)

(***************************************************************************)
(* C20.  Edges are not deduplicated: when a row for the ordered pair       *)
(* (A, B) exists, a further AddLineage(A, B) succeeds and persists a       *)
(* second row for the pair, and every successful AddLineage makes the      *)
(* number of lineage rows grow by one.                                     *)
(***************************************************************************)
RowsOfPair(rows, up, down) ==
    Len(SelectSeq(rows, LAMBDA l : l.upstream_id = up /\ l.downstream_id = down))

C20_EdgesNotDeduplicated ==
    \A a \in LineageFqns, b \in LineageFqns :
        LET o == add_lineage(Store, a, b)
        IN  /\ o.exc = "None" => Len(o.db.lineages) = Len(lineages) + 1
            /\ (Registered(a) /\ Registered(b)
                    /\ <<IdOf(a), IdOf(b)>> \in Edges(lineages)) =>
                 /\ o.exc = "None"
                 /\ RowsOfPair(o.db.lineages, IdOf(a), IdOf(b))
                      = RowsOfPair(lineages, IdOf(a), IdOf(b)) + 1
                 /\ o.out[1].id \notin Ids(lineages)

\* a second AddLineage for the same pair has succeeded: two rows of
\* different id hold the same ordered pair
C20_Witness ==
    /\ last.op = "AddLineage"
    /\ last.exc = "None"
    /\ Len(lineages) = 2
    /\ lineages[1].upstream_id = lineages[2].upstream_id
    /\ lineages[1].downstream_id = lineages[2].downstream_id
    /\ lineages[1].id # lineages[2].id
    /\ last.out[1] = lineages[2]

(***************************************************************************)
(* C21.  State only grows: across every step, each dataset row is kept     *)
(* with the same id, FQN, source type and columns and each lineage row     *)
(* with the same id and endpoints; no operation removes or rewrites a row. *)
(***************************************************************************)
C21_StateOnlyGrows ==
    [][ /\ Len(datasets') >= Len(datasets)
        /\ SubSeq(datasets', 1, Len(datasets)) = datasets
        /\ Len(lineages') >= Len(lineages)
        /\ SubSeq(lineages', 1, Len(lineages)) = lineages ]_vars

\* the first dataset registered is still there, unchanged, after two more
\* registrations, two edges and a refused AddDataset that carried other
\* columns for its FQN
C21_Witness ==
    /\ Len(datasets) = 3
    /\ Len(lineages) = 2
    /\ last.op = "AddDataset"
    /\ last.exc = "DatasetAlreadyExistsError"
    /\ last.args[1] = datasets[1].fqn
    /\ last.args[3] # datasets[1].columns
    /\ datasets[1].id = 1
    /\ lineages[1].id = 1

(***************************************************************************)
(* C22.  Both endpoints of every persisted edge are ids of registered      *)
(* datasets: AddLineage persists a row only after both FQNs have resolved  *)
(* to registered datasets, and the row carries the ids they resolved to.   *)
(***************************************************************************)
C22_EndpointsRegistered ==
    /\ \A i \in 1..Len(lineages) :
        /\ lineages[i].upstream_id \in Ids(datasets)
        /\ lineages[i].downstream_id \in Ids(datasets)
    /\ (last.op = "AddLineage" /\ last.exc = "None") =>
        /\ Registered(last.args[1])
        /\ Registered(last.args[2])
        /\ last.out[1] = lineages[Len(lineages)]
        /\ last.out[1].upstream_id = IdOf(last.args[1])
        /\ last.out[1].downstream_id = IdOf(last.args[2])

\* AddLineage has persisted an edge from the dataset registered third to
\* the dataset registered first, beside an earlier edge
C22_Witness ==
    /\ last.op = "AddLineage"
    /\ last.exc = "None"
    /\ Len(datasets) = 3
    /\ Len(lineages) = 2
    /\ last.out[1].upstream_id = 3
    /\ last.out[1].downstream_id = 1
    /\ datasets[3].fqn = last.args[1]
    /\ datasets[1].fqn = last.args[2]

(***************************************************************************)
(* C23.  add_lineage applies its checks in a fixed order and reports the   *)
(* first that fails: upstream exists, downstream exists, self-reference,   *)
(* cycle.  AddLineage(X, X) for an unregistered X fails with the not-found *)
(* error naming the upstream side, and the cycle search is never run when  *)
(* an endpoint is missing or the endpoints coincide.                       *)
(***************************************************************************)
C23_ChecksInOrder ==
    /\ \A t \in Threads :
        /\ pc[t] = "resolve_downstream" =>
            /\ loc[t].up # <<>>
            /\ loc[t].up[1].fqn = loc[t].args[1]
            /\ loc[t].down = <<>>
            /\ loc[t].stack = <<>> /\ loc[t].visited = {}
        /\ pc[t] \in {"dfs", "persist"} =>
            /\ loc[t].up # <<>> /\ loc[t].down # <<>>
            /\ loc[t].up[1].fqn = loc[t].args[1]
            /\ loc[t].down[1].fqn = loc[t].args[2]
            /\ loc[t].up[1].id # loc[t].down[1].id
    /\ last.op = "AddLineage" =>
        /\ ~Registered(last.args[1]) =>
            (last.exc = "DatasetNotFoundError"
                /\ last.msg = "Upstream dataset not found")
        /\ ~Registered(last.args[2]) => last.exc = "DatasetNotFoundError"
        /\ last.args[1] = last.args[2] =>
            last.msg \in {"Upstream dataset not found",
                          "Cannot create lineage to self"}
        /\ last.msg = "Downstream dataset not found" => last.args[1] # last.args[2]
        /\ last.msg = "would create a cycle" => last.args[1] # last.args[2]
        /\ last.exc = "None" => last.args[1] # last.args[2]

\* AddLineage(X, X) for an X that is not registered has failed naming the
\* upstream side, in a store that holds another dataset
C23_Witness ==
    /\ last.op = "AddLineage"
    /\ last.args[1] = last.args[2]
    /\ ~Registered(last.args[1])
    /\ last.exc = "DatasetNotFoundError"
    /\ last.msg = "Upstream dataset not found"
    /\ datasets # <<>>

(***************************************************************************)
(* C24.  Rejections for cycles are permanent: an AddLineage(U, D) that the *)
(* store refuses with the cycle error is refused with the cycle error      *)
(* after every further step, whatever is added; in particular, once the    *)
(* edge (U, D) is persisted, AddLineage(D, U) is refused.                  *)
(***************************************************************************)
CycleRefused(db, u, d) == add_lineage(db, u, d).exc = "CycleDetectionError"

C24_CycleRejectionPermanent ==
    [][ (datasets' # datasets \/ lineages' # lineages) =>
            LET after == [datasets |-> datasets', lineages |-> lineages']
            IN  /\ \A u \in LineageFqns, d \in LineageFqns :
                    CycleRefused(Store, u, d) => CycleRefused(after, u, d)
                /\ \A i \in 1..Len(after.lineages) :
                    \A u \in LineageFqns, d \in LineageFqns :
                        (get_dataset_by_fqn(after, u) # <<>>
                            /\ get_dataset_by_fqn(after, d) # <<>>
                            /\ get_dataset_by_fqn(after, u)[1].id
                                   = after.lineages[i].upstream_id
                            /\ get_dataset_by_fqn(after, d)[1].id
                                   = after.lineages[i].downstream_id)
                        => CycleRefused(after, d, u) ]_vars

\* AddLineage(D, U) has been refused as a cycle; the edge (U, D) was
\* persisted first and another edge after it
C24_Witness ==
    /\ last.op = "AddLineage"
    /\ last.exc = "CycleDetectionError"
    /\ last.msg = "would create a cycle"
    /\ Len(datasets) = 3
    /\ Len(lineages) = 2
    /\ Registered(last.args[1]) /\ Registered(last.args[2])
    /\ lineages[1].upstream_id = IdOf(last.args[2])
    /\ lineages[1].downstream_id = IdOf(last.args[1])
    /\ lineages[2].upstream_id # lineages[1].upstream_id

(***************************************************************************)
(* C25.  Each successful mutation touches only its own part of the state:  *)
(* a successful AddDataset adds exactly one dataset row, with the given    *)
(* FQN, source type and columns in the given order, and leaves the lineage *)
(* rows and all other dataset rows unchanged; a successful AddLineage(U,   *)
(* D) adds exactly one lineage row, from the id of U to the id of D, and   *)
(* leaves the dataset rows and all other lineage rows unchanged.           *)
(***************************************************************************)
C25_MutationFrame ==
    [][ /\ (last'.op = "AddDataset" /\ last'.exc = "None") =>
            /\ lineages' = lineages
            /\ Len(datasets') = Len(datasets) + 1
            /\ SubSeq(datasets', 1, Len(datasets)) = datasets
            /\ LET row == datasets'[Len(datasets')]
               IN  /\ row.fqn = last'.args[1]
                   /\ row.source_type = last'.args[2]
                   /\ row.columns = last'.args[3]
                   /\ row.id \notin Ids(datasets)
                   /\ last'.out = <<row>>
        /\ (last'.op = "AddLineage" /\ last'.exc = "None") =>
            /\ datasets' = datasets
            /\ Len(lineages') = Len(lineages) + 1
            /\ SubSeq(lineages', 1, Len(lineages)) = lineages
            /\ LET row == lineages'[Len(lineages')]
               IN  /\ row.upstream_id = IdOf(last'.args[1])
                   /\ row.downstream_id = IdOf(last'.args[2])
                   /\ row.id \notin Ids(lineages)
                   /\ last'.out = <<row>> ]_vars

\* a dataset with two columns has been registered third, beside two
\* datasets and an edge between them
C25_Witness ==
    /\ last.op = "AddDataset"
    /\ last.exc = "None"
    /\ Len(last.args[3]) = 2
    /\ Len(datasets) = 3
    /\ datasets[3].columns = last.args[3]
    /\ datasets[3].columns[1] # datasets[3].columns[2]
    /\ lineages # <<>>

====
